---- MODULE Spec2Model ----
(***************************************************************************)
(* convert_logger.py: the logger.error -> logError migration tool.         *)
(*                                                                         *)
(* A file's text is a sequence of tokens (strings); the text is the        *)
(* concatenation of its tokens.  The regular expressions of the source     *)
(* are written down item by item and run by a backtracking matcher with    *)
(* Python's priorities (greedy, lazy, optional group, leftmost match).     *)
(***************************************************************************)
EXTENDS Integers, Sequences, FiniteSets, TLC

(***************************************************************************)
(* Bounds of the model.                                                    *)
(***************************************************************************)
\* a file of Spec is made of at most MaxSegs source fragments
MaxSegs == 3
\* SpecDirs: roots given on the command line, files under all roots together
MaxRoots == 2
MaxFiles == 2

(***************************************************************************)
(* Character classes.  A class is a set of tokens, or its complement.      *)
(***************************************************************************)
Cls(neg, s) == [neg |-> neg, s |-> s]
InCls(c, tok) == IF c.neg THEN tok \notin c.s ELSE tok \in c.s

Space == Cls(FALSE, {" ", "\n"})                \* \s
Dot == Cls(TRUE, {"\n"})                         \* .  (no DOTALL flag)
\* the three quote characters; BACKQUOTE stands for the backquote, which a
\* TLA+ string cannot hold
Quote3 == Cls(FALSE, {"'", "\"", "BACKQUOTE"})
Quote2 == Cls(FALSE, {"'", "\""})                \* single or double quote
One(tok) == Cls(FALSE, {tok})

(***************************************************************************)
(* Pattern items.                                                          *)
(***************************************************************************)
Item(k, c, n, sub) == [k |-> k, c |-> c, n |-> n, sub |-> sub]
Lit(tok) == Item("lit", One(tok), 0, <<>>)       \* a literal piece
In(c) == Item("lit", c, 0, <<>>)                 \* one element of a class
Star(c) == Item("greedy", c, 0, <<>>)            \* c*
Lazy(c) == Item("lazy", c, 0, <<>>)              \* c*?
Open(n) == Item("open", Dot, n, <<>>)            \* ( of group n
Close(n) == Item("close", Dot, n, <<>>)          \* ) of group n
Opt(sub) == Item("opt", Dot, 0, sub)             \* (...)?
Bol == Item("bol", Dot, 0, <<>>)                 \* ^ under re.MULTILINE
Eol == Item("eol", Dot, 0, <<>>)                 \* $ under re.MULTILINE
Plus(c) == <<In(c), Star(c)>>                    \* c+

\* the most groups a pattern of the source has (the multi-name logger import)
NGroups == 3
NoMatch == [ok |-> FALSE, end |-> 0, g |-> [n \in 1..NGroups |-> <<1, 1>>]]
MatchAtEnd(pos) == [ok |-> TRUE, end |-> pos, g |-> [n \in 1..NGroups |-> <<1, 1>>]]

\* the number of leading elements of s from pos on that are in class c
RunLen(c, s, pos) ==
    CHOOSE n \in 0..(Len(s) + 1 - pos) :
        /\ \A i \in pos..(pos + n - 1) : InCls(c, s[i])
        /\ pos + n > Len(s) \/ ~InCls(c, s[pos + n])

(***************************************************************************)
(* Match(items, s, pos): the match of the item list at position pos that a *)
(* backtracking engine finds first; end is the position after the match,   *)
(* g[n] = <<from, to>> the span [from, to) of group n (empty when the      *)
(* group took no part).  A greedy repetition takes the longest run after   *)
(* which the rest of the pattern matches, a lazy one the shortest, an      *)
(* optional group is tried present before absent.                          *)
(***************************************************************************)
RECURSIVE Match(_, _, _)
Match(items, s, pos) ==
    IF items = <<>> THEN MatchAtEnd(pos)
    ELSE LET it == Head(items)
             rest == Tail(items)
             \* for every length k of a run of it.c at pos, the match of the rest
             \* after it, where there is one
             runs == {run \in {<<k, Match(rest, s, pos + k)>> :
                                  k \in 0..RunLen(it.c, s, pos)} : run[2].ok}
             r == Match(rest, s, pos)
         IN CASE it.k = "lit" ->
                    IF pos <= Len(s) /\ InCls(it.c, s[pos])
                    THEN Match(rest, s, pos + 1) ELSE NoMatch
              [] it.k = "greedy" ->
                    IF runs = {} THEN NoMatch
                    ELSE (CHOOSE run \in runs : \A other \in runs : other[1] <= run[1])[2]
              [] it.k = "lazy" ->
                    IF runs = {} THEN NoMatch
                    ELSE (CHOOSE run \in runs : \A other \in runs : run[1] <= other[1])[2]
              [] it.k = "open" ->
                    IF r.ok THEN [r EXCEPT !.g[it.n] = <<pos, r.g[it.n][2]>>] ELSE r
              [] it.k = "close" ->
                    IF r.ok THEN [r EXCEPT !.g[it.n] = <<r.g[it.n][1], pos>>] ELSE r
              [] it.k = "opt" ->
                    LET with == Match(it.sub \o rest, s, pos)
                    IN IF with.ok THEN with ELSE r
              [] it.k = "bol" ->
                    IF pos = 1 \/ (pos - 1 <= Len(s) /\ s[pos - 1] = "\n")
                    THEN r ELSE NoMatch
              [] it.k = "eol" ->
                    IF pos = Len(s) + 1 \/ (pos <= Len(s) /\ s[pos] = "\n")
                    THEN r ELSE NoMatch

\* the leftmost position from pos on where the pattern matches, 0 when none
FirstStart(items, s, pos) ==
    LET starts == {p \in pos..(Len(s) + 1) : Match(items, s, p).ok}
    IN IF starts = {} THEN 0
       ELSE CHOOSE p \in starts : \A q \in starts : p <= q

\* re.search
Search(items, s) ==
    LET start == FirstStart(items, s, 1)
    IN IF start = 0 THEN NoMatch ELSE Match(items, s, start)

Found(items, s) == FirstStart(items, s, 1) # 0

(***************************************************************************)
(* Replacement templates: a sequence of literal tokens and group           *)
(* references.                                                             *)
(***************************************************************************)
T(tok) == [ref |-> 0, tok |-> tok]
Ref(n) == [ref |-> n, tok |-> ""]

Span(s, fromTo) == SubSeq(s, fromTo[1], fromTo[2] - 1)

RECURSIVE Expand(_, _, _)
Expand(template, s, m) ==
    IF template = <<>> THEN <<>>
    ELSE LET h == Head(template)
         IN (IF h.ref = 0 THEN <<h.tok>> ELSE Span(s, m.g[h.ref]))
            \o Expand(Tail(template), s, m)

\* re.sub: every non-overlapping match, leftmost first, replaced (no pattern
\* of the source matches the empty text)
RECURSIVE SubFrom(_, _, _, _)
SubFrom(items, template, s, pos) ==
    LET start == FirstStart(items, s, pos)
        m == Match(items, s, start)
    IN IF start = 0 THEN SubSeq(s, pos, Len(s))
       ELSE SubSeq(s, pos, start - 1) \o Expand(template, s, m)
            \o SubFrom(items, template, s, m.end)

Sub(items, template, s) == SubFrom(items, template, s, 1)

\* list(re.finditer(...))[-1].end(): the end of the last match, 0 when none
RECURSIVE LastMatchEndFrom(_, _, _, _)
LastMatchEndFrom(items, s, pos, last_end) ==
    LET start == FirstStart(items, s, pos)
        end == Match(items, s, start).end
    IN IF start = 0 THEN last_end
       ELSE LastMatchEndFrom(items, s, end, end)

LastMatchEnd(items, s) == LastMatchEndFrom(items, s, 1, 0)

(***************************************************************************)
(* replace_logger_with_logerror                                            *)
(***************************************************************************)
\* tokens that begin with the letters "error"
ErrorWord == Cls(FALSE, {"error"})

\* logger\.error\(\s*[quote](.*?)[quote]\s*,\s*(error.*?)\s*\)
ShapeA ==
    <<Lit("logger"), Lit(".error"), Lit("("), Star(Space), In(Quote3),
      Open(1), Lazy(Dot), Close(1), In(Quote3), Star(Space), Lit(","), Star(Space),
      Open(2), In(ErrorWord), Lazy(Dot), Close(2), Star(Space), Lit(")")>>

\* logError(\2, {}, "\1")
ShapeATemplate ==
    <<T("logError"), T("("), Ref(2), T(","), T(" "), T("{"), T("}"), T(","), T(" "),
      T("\""), Ref(1), T("\""), T(")")>>

\* logger\.error\(\s*[quote](.*?)[quote]\s*,\s*\{(.*?)\}\s*\)
ShapeB ==
    <<Lit("logger"), Lit(".error"), Lit("("), Star(Space), In(Quote3),
      Open(1), Lazy(Dot), Close(1), In(Quote3), Star(Space), Lit(","), Star(Space),
      Lit("{"), Open(2), Lazy(Dot), Close(2), Lit("}"), Star(Space), Lit(")")>>

\* logError(error, {\2}, "\1")
ShapeBTemplate ==
    <<T("logError"), T("("), T("error"), T(","), T(" "), T("{"), Ref(2), T("}"),
      T(","), T(" "), T("\""), Ref(1), T("\""), T(")")>>

replace_logger_with_logerror(content) ==
    Sub(ShapeB, ShapeBTemplate, Sub(ShapeA, ShapeATemplate, content))

(***************************************************************************)
(* add_error_handler_import                                                *)
(***************************************************************************)
\* import\s+\{.*logError.*\}\s+from
LogErrorImported ==
    <<Lit("import")>> \o Plus(Space) \o
    <<Lit("{"), Star(Dot), Lit("logError"), Star(Dot), Lit("}")>> \o Plus(Space) \o
    <<Lit("from")>>

\* import\s+\{(.*)\}\s+from\s+([quote].*?utils/error-handler[quote])
ErrorHandlerImport ==
    <<Lit("import")>> \o Plus(Space) \o
    <<Lit("{"), Open(1), Star(Dot), Close(1), Lit("}")>> \o Plus(Space) \o
    <<Lit("from")>> \o Plus(Space) \o
    <<Open(2), In(Quote2), Lazy(Dot), Lit("utils/error-handler"), In(Quote2), Close(2)>>

\* import {\1, logError} from \2
ErrorHandlerTemplate ==
    <<T("import"), T(" "), T("{"), Ref(1), T(","), T(" "), T("logError"), T("}"),
      T(" "), T("from"), T(" "), Ref(2)>>

\* "import { logError } from '@/lib/utils/error-handler';\n"
import_statement ==
    <<"import", " ", "{", " ", "logError", " ", "}", " ", "from", " ",
      "'", "@/lib/", "utils/error-handler", "'", ";", "\n">>

\* ^import.*$ under re.MULTILINE
ImportLine == <<Bol, Lit("import"), Star(Dot), Eol>>

add_error_handler_import(content) ==
    LET error_handler_import == Search(ErrorHandlerImport, content)
        imports == {content[i] : i \in error_handler_import.g[1][1]
                                       ..(error_handler_import.g[1][2] - 1)}
        end_pos == LastMatchEnd(ImportLine, content)
    IN IF Found(LogErrorImported, content) THEN content
       ELSE IF error_handler_import.ok
            THEN IF "logError" \notin imports
                 THEN Sub(ErrorHandlerImport, ErrorHandlerTemplate, content)
                 ELSE content
            ELSE IF Found(ImportLine, content)
                 THEN SubSeq(content, 1, end_pos - 1) \o <<"\n">>
                      \o import_statement
                      \o SubSeq(content, end_pos, Len(content))
                 ELSE import_statement \o content

(***************************************************************************)
(* check_logger_import, remove_logger_import                               *)
(***************************************************************************)
\* logger\.(info|warn|debug)
OtherLoggerUse == <<Lit("logger"), In(Cls(FALSE, {".info", ".warn", ".debug"}))>>

\* a search that forgets the info level
check_logger_import_NoInfo(content) ==
    Found(<<Lit("logger"), In(Cls(FALSE, {".warn", ".debug"}))>>, content)

check_logger_import(content) == Found(OtherLoggerUse, content)

\* import\s+\{\s*logger\s*\}\s+from\s+[quote].*?utils/logger[quote];\s*\n
SingleLoggerImport ==
    <<Lit("import")>> \o Plus(Space) \o
    <<Lit("{"), Star(Space), Lit("logger"), Star(Space), Lit("}")>> \o Plus(Space) \o
    <<Lit("from")>> \o Plus(Space) \o
    <<In(Quote2), Lazy(Dot), Lit("utils/logger"), In(Quote2), Lit(";"),
      Star(Space), Lit("\n")>>

\* import\s+\{(.*),\s*logger(,.*?)?\}\s+from\s+([quote].*?utils/logger[quote]);\s*\n
MultiLoggerImport ==
    <<Lit("import")>> \o Plus(Space) \o
    <<Lit("{"), Open(1), Star(Dot), Close(1), Lit(","), Star(Space), Lit("logger"),
      Opt(<<Open(2), Lit(","), Lazy(Dot), Close(2)>>), Lit("}")>> \o Plus(Space) \o
    <<Lit("from")>> \o Plus(Space) \o
    <<Open(3), In(Quote2), Lazy(Dot), Lit("utils/logger"), In(Quote2), Close(3),
      Lit(";"), Star(Space), Lit("\n")>>

\* import {\1\2} from \3;\n
MultiLoggerTemplate ==
    <<T("import"), T(" "), T("{"), Ref(1), Ref(2), T("}"), T(" "), T("from"), T(" "),
      Ref(3), T(";"), T("\n")>>

\* import\s+\{(.*),\s*logger\}\s+from\s+([quote].*?utils/logger[quote]);\s*\n
LastLoggerImport ==
    <<Lit("import")>> \o Plus(Space) \o
    <<Lit("{"), Open(1), Star(Dot), Close(1), Lit(","), Star(Space), Lit("logger"),
      Lit("}")>> \o Plus(Space) \o
    <<Lit("from")>> \o Plus(Space) \o
    <<Open(2), In(Quote2), Lazy(Dot), Lit("utils/logger"), In(Quote2), Close(2),
      Lit(";"), Star(Space), Lit("\n")>>

\* import {\1} from \2;\n
LastLoggerTemplate ==
    <<T("import"), T(" "), T("{"), Ref(1), T("}"), T(" "), T("from"), T(" "),
      Ref(2), T(";"), T("\n")>>

\* import\s+\{\s*\}\s+from\s+[quote].*?utils/logger[quote];\s*\n
EmptyLoggerImport ==
    <<Lit("import")>> \o Plus(Space) \o
    <<Lit("{"), Star(Space), Lit("}")>> \o Plus(Space) \o
    <<Lit("from")>> \o Plus(Space) \o
    <<In(Quote2), Lazy(Dot), Lit("utils/logger"), In(Quote2), Lit(";"),
      Star(Space), Lit("\n")>>

remove_logger_import(content) ==
    IF check_logger_import(content) THEN content
    ELSE Sub(EmptyLoggerImport, <<>>,
             Sub(LastLoggerImport, LastLoggerTemplate,
                 Sub(MultiLoggerImport, MultiLoggerTemplate,
                     Sub(SingleLoggerImport, <<>>, content))))

(***************************************************************************)
(* modify_catch_blocks                                                     *)
(***************************************************************************)
\* catch\s*\(\s*error\s*\)
CatchError ==
    <<Lit("catch"), Star(Space), Lit("("), Star(Space), Lit("error"), Star(Space),
      Lit(")")>>

\* catch (error: unknown)
CatchTemplate ==
    <<T("catch"), T(" "), T("("), T("error"), T(":"), T(" "), T("unknown"), T(")")>>

modify_catch_blocks(content) == Sub(CatchError, CatchTemplate, content)

(***************************************************************************)
(* process_file: the pipeline and the decision to write.                   *)
(***************************************************************************)
\* a guard that looks for the identifier alone
ContainsLoggerError_AnyLogger(content) == Found(<<Lit("logger")>>, content)

\* "logger.error" in content
ContainsLoggerError(content) == Found(<<Lit("logger"), Lit(".error")>>, content)

\* line 134, and what the four stages gave
AfterReconcile(rewritten, imported, reconciled) ==
    [ran |-> TRUE, rewritten |-> rewritten, imported |-> imported,
     reconciled |-> reconciled, content |-> modify_catch_blocks(reconciled)]

\* lines 130-131
AfterImport(rewritten, imported) ==
    AfterReconcile(rewritten, imported, remove_logger_import(imported))

\* lines 127-128
AfterRewrite(rewritten) ==
    AfterImport(rewritten, add_error_handler_import(rewritten))

\* lines 122-134: the four stages, each on the output of the one before
Stages(original_content) ==
    IF ContainsLoggerError(original_content)
    THEN AfterRewrite(replace_logger_with_logerror(original_content))
    ELSE [ran |-> FALSE, rewritten |-> original_content, imported |-> original_content,
          reconciled |-> original_content, content |-> original_content]

Pipeline(original_content) == Stages(original_content).content

(***************************************************************************)
(* The source fragments the files of the model are made of.                *)
(***************************************************************************)
LoggerPath == <<"'", "@/lib/", "utils/logger", "'", ";", "\n">>

\* import { logger } from '@/lib/utils/logger';
ImportLoggerOnly ==
    <<"import", " ", "{", " ", "logger", " ", "}", " ", "from", " ">> \o LoggerPath
\* import {logger, a} from '@/lib/utils/logger';
ImportLoggerFirst ==
    <<"import", " ", "{", "logger", ",", " ", "a", "}", " ", "from", " ">> \o LoggerPath
\* import {a, logger, b} from '@/lib/utils/logger';
ImportLoggerMiddle ==
    <<"import", " ", "{", "a", ",", " ", "logger", ",", " ", "b", "}", " ", "from", " ">>
    \o LoggerPath
\* import {a, logger} from '@/lib/utils/logger';
ImportLoggerLast ==
    <<"import", " ", "{", "a", ",", " ", "logger", "}", " ", "from", " ">> \o LoggerPath
\* import {logger, logger} from '@/lib/utils/logger';
ImportLoggerTwice ==
    <<"import", " ", "{", "logger", ",", " ", "logger", "}", " ", "from", " ">>
    \o LoggerPath
\* import { h } from '@/lib/utils/error-handler';
ImportHandler ==
    <<"import", " ", "{", " ", "h", " ", "}", " ", "from", " ",
      "'", "@/lib/", "utils/error-handler", "'", ";", "\n">>
\* a declaration over three lines:  import {  /  z  /  } from './z';
ImportMultiLine ==
    <<"import", " ", "{", "\n", " ", "z", "\n", "}", " ", "from", " ",
      "'", "./z", "'", ";", "\n">>
\* logger.error('m', error);
CallShapeA ==
    <<"logger", ".error", "(", "'", "m", "'", ",", " ", "error", ")", ";", "\n">>
\* logger.error('m', {code: 1});
CallShapeB ==
    <<"logger", ".error", "(", "'", "m", "'", ",", " ", "{", "code: 1", "}", ")", ";",
      "\n">>
\* logger.error('m', err);  with the line going on after it
CallUnmatched ==
    <<"logger", ".error", "(", "'", "m", "'", ",", " ", "err", ")", ";", " ">>
\* logger.info('s');
CallInfo == <<"logger", ".info", "(", "'", "s", "'", ")", ";", "\n">>
\* } catch (error) {
CatchClause == <<"}", " ", "catch", " ", "(", "error", ")", " ", "{", "\n">>

Fragments ==
    {ImportLoggerOnly, ImportLoggerFirst, ImportLoggerMiddle, ImportLoggerLast,
     ImportLoggerTwice, ImportHandler, import_statement, ImportMultiLine,
     CallShapeA, CallShapeB, CallUnmatched, CallInfo, CatchClause}

RECURSIVE Concat(_)
Concat(segs) == IF segs = <<>> THEN <<>> ELSE Head(segs) \o Concat(Tail(segs))

\* the texts of at most n fragments
TextsUpTo(n) == {Concat(segs) : segs \in UNION {[1..k -> Fragments] : k \in 0..n}}

(***************************************************************************)
(* process_file(file_path): read, run the pipeline, write when changed.    *)
(* io is what the file system does to the call.                            *)
(***************************************************************************)
IOOutcomes == {"ok", "read_error", "write_error", "write_error_truncated"}

\* a write that is not conditional
ContentChanged_Always(content, original_content) == TRUE

\* lines 136-140: the test that decides the write and the return value
ContentChanged(content, original_content) == content # original_content

\* an except branch that falls through to "return True"
ExceptionResult_True == TRUE

\* lines 141-143: the except branch
ExceptionResult == FALSE

\* lines 136-145, st being what lines 122-134 made of the text read
WriteBack(file_path, on_disk, io, st) ==
    LET changed == ContentChanged(st.content, on_disk)
        fails == changed /\ io \in {"write_error", "write_error_truncated"}
    IN [path |-> file_path, io |-> io, raised |-> fails, original |-> on_disk,
        ran |-> st.ran, rewritten |-> st.rewritten, imported |-> st.imported,
        reconciled |-> st.reconciled, content |-> st.content,
        wrote |-> changed /\ ~fails,
        written |-> IF changed /\ ~fails THEN st.content ELSE <<>>,
        on_disk |-> IF ~changed THEN on_disk
                    ELSE IF ~fails THEN st.content
                    ELSE IF io = "write_error_truncated" THEN <<>>
                    ELSE on_disk,
        ret |-> IF fails THEN ExceptionResult ELSE changed]

\* lines 115-117, 141-143: the read raises
ReadFails(file_path, on_disk) ==
    [path |-> file_path, io |-> "read_error", raised |-> TRUE, original |-> on_disk,
     ran |-> FALSE, rewritten |-> on_disk, imported |-> on_disk,
     reconciled |-> on_disk, content |-> on_disk,
     wrote |-> FALSE, written |-> <<>>, on_disk |-> on_disk,
     ret |-> ExceptionResult]

\* every way a call that has read the file can end, st being what lines 122-134
\* made of the text read
Outcomes(file_path, on_disk, st) ==
    {WriteBack(file_path, on_disk, io, st) : io \in IOOutcomes \ {"read_error"}}

\* lines 113-145: every way a call can end
process_file(file_path, on_disk) ==
    {ReadFails(file_path, on_disk)} \cup Outcomes(file_path, on_disk, Stages(on_disk))

NoCall ==
    [path |-> 0, io |-> "ok", raised |-> FALSE, original |-> <<>>, ran |-> FALSE,
     rewritten |-> <<>>, imported |-> <<>>, reconciled |-> <<>>, content |-> <<>>,
     wrote |-> FALSE, written |-> <<>>, on_disk |-> <<>>, ret |-> FALSE]

(***************************************************************************)
(* process_directories and the main block.                                 *)
(***************************************************************************)
VARIABLES
    directories,     \* the roots given, each with what the file system holds for it
    disk,            \* file path -> text
    d,               \* the root the outer loop is at
    f,               \* how many files of that root's glob are done
    modified_files,  \* the list process_directories builds
    processed,       \* the paths process_file was called on, in order
    last,            \* the latest process_file call: its stages and its result
    console,         \* what was printed
    pc               \* "loop" | "done"

vars == <<directories, disk, d, f, modified_files, processed, last, console, pc>>

Root(exists, files) == [exists |-> exists, files |-> files]

\* Spec: one absent root, then a root with one file of any text of the model
Init ==
    /\ directories = <<Root(FALSE, <<>>), Root(TRUE, <<1>>)>>
    /\ disk \in [{1} -> TextsUpTo(MaxSegs)]
    /\ d = 1
    /\ f = 0
    /\ modified_files = <<>>
    /\ processed = <<>>
    /\ last = NoCall
    /\ console = <<>>
    /\ pc = "loop"

\* lines 152-154
SkipMissingRoot ==
    /\ pc = "loop"
    /\ d <= Len(directories)
    /\ ~directories[d].exists
    /\ console' = Append(console, <<"warning", d>>)
    /\ d' = d + 1
    /\ UNCHANGED <<directories, disk, f, modified_files, processed, last, pc>>

\* lines 157-158, r being what process_file(file_path) did and returned
Collect(file_path, r) ==
    /\ last' = r
    /\ disk' = [disk EXCEPT ![file_path] = r.on_disk]
    /\ modified_files' = IF r.ret THEN Append(modified_files, file_path)
                         ELSE modified_files
    /\ console' = IF r.raised THEN Append(console, <<"error", file_path>>)
                  ELSE console
    /\ processed' = Append(processed, file_path)

\* lines 156-158: one turn of the inner loop; the file cannot be read (lines
\* 116-117 raise), or it is read and converted
ProcessNextFile ==
    /\ pc = "loop"
    /\ d <= Len(directories)
    /\ directories[d].exists
    /\ f < Len(directories[d].files)
    /\ \/ Collect(directories[d].files[f + 1],
                  ReadFails(directories[d].files[f + 1],
                            disk[directories[d].files[f + 1]]))
       \/ \E r \in process_file(directories[d].files[f + 1],
                                 disk[directories[d].files[f + 1]]) :
             r.io # "read_error" /\ Collect(directories[d].files[f + 1], r)
    /\ f' = f + 1
    /\ UNCHANGED <<directories, d, pc>>

\* line 156: the glob of this root is exhausted
LeaveRoot ==
    /\ pc = "loop"
    /\ d <= Len(directories)
    /\ directories[d].exists
    /\ f = Len(directories[d].files)
    /\ d' = d + 1
    /\ f' = 0
    /\ UNCHANGED <<directories, disk, modified_files, processed, last, console, pc>>

\* lines 160, 175-179: return the list and print the summary
Finish ==
    /\ pc = "loop"
    /\ d > Len(directories)
    /\ console' = Append(console, <<"summary", Len(modified_files)>>)
                  \o [i \in 1..Len(modified_files) |-> <<"file", modified_files[i]>>]
    /\ pc' = "done"
    /\ UNCHANGED <<directories, disk, d, f, modified_files, processed, last>>

Next == SkipMissingRoot \/ ProcessNextFile \/ LeaveRoot \/ Finish

Spec == Init /\ [][Next]_vars

(***************************************************************************)
(* SpecDirs: several roots and files, texts from a few samples.            *)
(***************************************************************************)
SampleTexts ==
    {CatchClause, ImportLoggerOnly \o CallShapeA, import_statement \o CallUnmatched}

RECURSIVE Sum(_, _)
Sum(counts, n) ==
    IF n = 0 THEN 0 ELSE Sum(counts, n - 1) + (IF counts[n] < 0 THEN 0 ELSE counts[n])

\* counts[i] = -1: root i is absent; otherwise the number of files under it
TreeOf(counts) ==
    [i \in DOMAIN counts |->
        IF counts[i] < 0 THEN Root(FALSE, <<>>)
        ELSE Root(TRUE, [k \in 1..counts[i] |-> Sum(counts, i - 1) + k])]

InitDirs ==
    /\ \E n \in 1..MaxRoots : \E counts \in [1..n -> -1..MaxFiles] :
          /\ Sum(counts, n) <= MaxFiles
          /\ directories = TreeOf(counts)
          /\ disk \in [1..Sum(counts, n) -> SampleTexts]
    /\ d = 1
    /\ f = 0
    /\ modified_files = <<>>
    /\ processed = <<>>
    /\ last = NoCall
    /\ console = <<>>
    /\ pc = "loop"

SpecDirs == InitDirs /\ [][Next]_vars

\* the program is one thread that runs until it returns
FairSpecDirs == SpecDirs /\ WF_vars(Next)

(***************************************************************************)
(* Notions of the specification, said on the text itself.                  *)
(***************************************************************************)
Range(seq) == {seq[i] : i \in DOMAIN seq}
Count(tok, text) == Cardinality({i \in DOMAIN text : text[i] = tok})

\* the text has the token logger.error
HasToken(text) ==
    \E i \in DOMAIN text : i < Len(text) /\ text[i] = "logger" /\ text[i + 1] = ".error"

\* the text uses logger.info, logger.warn or logger.debug
UsesOtherLevel(text) ==
    \E i \in DOMAIN text :
        i < Len(text) /\ text[i] = "logger" /\ text[i + 1] \in {".info", ".warn", ".debug"}

\* the text accesses a member of logger
UsesLogger(text) ==
    \E i \in DOMAIN text :
        /\ i < Len(text)
        /\ text[i] = "logger"
        /\ text[i + 1] \in {".error", ".info", ".warn", ".debug"}

\* the text has catch (error)
HasCatchError(text) ==
    \E i \in DOMAIN text :
        /\ i + 4 <= Len(text)
        /\ SubSeq(text, i, i + 4) = <<"catch", " ", "(", "error", ")">>

\* the lines of the text, each with the place it starts at
LineStarts(text) == {i \in DOMAIN text : i = 1 \/ text[i - 1] = "\n"}
LineEnd(text, i) ==
    CHOOSE j \in i..Len(text) :
        /\ text[j] = "\n" \/ j = Len(text)
        /\ \A k \in i..(j - 1) : text[k] # "\n"
LineAt(text, i) == SubSeq(text, i, LineEnd(text, i))

\* the lines that hold every token of toks
LinesWith(text, toks) ==
    {LineAt(text, i) : i \in {j \in LineStarts(text) : toks \subseteq Range(LineAt(text, j))}}
NLinesWith(text, toks) ==
    Cardinality({j \in LineStarts(text) : toks \subseteq Range(LineAt(text, j))})

\* a call site of logger.error: from the identifier to the first closing parenthesis
CallStarts(text) ==
    {i \in DOMAIN text :
        /\ i + 2 <= Len(text)
        /\ SubSeq(text, i, i + 2) = <<"logger", ".error", "(">>
        /\ \E j \in i..Len(text) : text[j] = ")"}
CallEnd(text, i) ==
    CHOOSE j \in i..Len(text) : text[j] = ")" /\ \A k \in i..(j - 1) : text[k] # ")"

IsShape(shape, site) ==
    Match(shape, site, 1).ok /\ Match(shape, site, 1).end = Len(site) + 1

\* a call site on its own: shape A, else shape B, else as it is
ConvertSite(site) ==
    IF IsShape(ShapeA, site) THEN Expand(ShapeATemplate, site, Match(ShapeA, site, 1))
    ELSE IF IsShape(ShapeB, site) THEN Expand(ShapeBTemplate, site, Match(ShapeB, site, 1))
    ELSE site

NextCall(text, pos) ==
    IF \E i \in CallStarts(text) : i >= pos
    THEN CHOOSE i \in CallStarts(text) :
             i >= pos /\ \A j \in CallStarts(text) : j >= pos => i <= j
    ELSE 0

\* every call site converted on its own, the text between them kept
RECURSIVE ConvertEachFrom(_, _, _)
ConvertEachFrom(text, pos, call) ==
    IF call = 0 THEN SubSeq(text, pos, Len(text))
    ELSE SubSeq(text, pos, call - 1)
         \o ConvertSite(SubSeq(text, call, CallEnd(text, call)))
         \o ConvertEachFrom(text, CallEnd(text, call) + 1,
                            NextCall(text, CallEnd(text, call) + 1))

ConvertEach(text) == ConvertEachFrom(text, 1, NextCall(text, 1))

HasShapeSite(text) ==
    \E i \in CallStarts(text) :
        \/ IsShape(ShapeA, SubSeq(text, i, CallEnd(text, i)))
        \/ IsShape(ShapeB, SubSeq(text, i, CallEnd(text, i)))

\* where the last import declaration that begins a line ends (its semicolon), 0 if none
DeclStarts(text) == {i \in LineStarts(text) : text[i] = "import"}
LastDeclEnd(text) ==
    IF DeclStarts(text) = {} THEN 0
    ELSE LET start == CHOOSE i \in DeclStarts(text) : \A j \in DeclStarts(text) : j <= i
         IN CHOOSE j \in start..Len(text) :
                text[j] = ";" /\ \A k \in start..(j - 1) : text[k] # ";"

\* the text has an import declaration with no name between its braces
HasEmptyImport(text) ==
    \E i \in DOMAIN text :
        /\ i >= 3 /\ i < Len(text)
        /\ text[i - 2] = "import" /\ text[i] = "{" /\ text[i + 1] = "}"

Called == last.path # 0

(***************************************************************************)
(* C1.  A file whose text has no logger.error token is left as it is: the  *)
(* final text is the text read (no call rewritten, no import touched, no   *)
(* catch clause annotated), nothing is written, process_file returns       *)
(* False and the file is not listed.                                       *)
(***************************************************************************)
C1_NoTokenNoChange ==
    (Called /\ ~HasToken(last.original)) =>
        /\ last.content = last.original
        /\ disk[last.path] = last.original
        /\ ~last.wrote
        /\ ~last.ret
        /\ last.path \notin Range(modified_files)

C1_Witness ==
    /\ Called /\ pc = "done" /\ last.io = "ok"
    /\ ~HasToken(last.original)
    /\ HasCatchError(last.original)
    /\ UsesOtherLevel(last.original)
    /\ HasCatchError(disk[last.path])

(***************************************************************************)
(* C2.  A call of process_file without an I/O error writes exactly when    *)
(* the final text differs from the text read, what it writes is the final  *)
(* text, and it returns True exactly then; process_directories lists the   *)
(* file exactly when process_file returned True.                           *)
(***************************************************************************)
C2_WriteIffChanged ==
    Called =>
        /\ (last.path \in Range(modified_files)) <=> last.ret
        /\ ~last.raised =>
              /\ last.wrote <=> (last.content # last.original)
              /\ last.ret <=> (last.content # last.original)
              /\ last.wrote => last.written = last.content
              /\ disk[last.path] = last.content

C2_Witness ==
    /\ Called /\ pc = "done" /\ ~last.raised
    /\ last.wrote /\ last.ret
    /\ modified_files = <<last.path>>
    /\ disk[last.path] # last.original
    /\ last.content # last.reconciled
    /\ last.reconciled # last.imported

\* a text with the token that the pipeline leaves as it is: no write either
C2_WitnessUnchanged ==
    /\ Called /\ pc = "done" /\ ~last.raised
    /\ last.ran /\ ~last.wrote /\ ~last.ret
    /\ modified_files = <<>>

(***************************************************************************)
(* C3.  An error raised while a file is read or written makes              *)
(* process_file return False, so the file is not listed; the run goes on   *)
(* with every remaining file of every remaining root in enumeration order, *)
(* an absent root is skipped, and the run reaches the final summary.       *)
(***************************************************************************)
RECURSIVE FilesInOrder(_)
FilesInOrder(dirs) ==
    IF dirs = <<>> THEN <<>>
    ELSE (IF Head(dirs).exists THEN Head(dirs).files ELSE <<>>) \o FilesInOrder(Tail(dirs))

C3_Safety ==
    /\ \A i \in DOMAIN console :
          console[i][1] = "error" => console[i][2] \notin Range(modified_files)
    /\ (Called /\ last.io = "read_error") => (last.raised /\ ~last.ret)
    /\ (Called /\ last.io \in {"write_error", "write_error_truncated"}
               /\ last.content # last.original) => (last.raised /\ ~last.ret)
    /\ Len(processed) <= Len(FilesInOrder(directories))
    /\ processed = SubSeq(FilesInOrder(directories), 1, Len(processed))
    /\ pc = "done" =>
          /\ processed = FilesInOrder(directories)
          /\ \E i \in DOMAIN console : console[i] = <<"summary", Len(modified_files)>>

C3_ErrorsDoNotStopRun == [](C3_Safety) /\ <>(pc = "done")

C3_Witness ==
    /\ pc = "done"
    /\ Len(processed) >= 2
    /\ \E i \in DOMAIN console : console[i][1] = "warning"
    /\ \E i \in DOMAIN console : console[i] = <<"error", processed[1]>>
    /\ processed[2] \in Range(modified_files)

(***************************************************************************)
(* C4.  The pipeline applied to its own output changes nothing when that   *)
(* output has no call site matching shape A or B left (also when the       *)
(* token logger.error is still there in another shape), and one pass       *)
(* leaves no call site matching shape A or B.                              *)
(***************************************************************************)
C4_IdempotentOnceConverted ==
    (Called /\ last.ran) =>
        /\ ~(Found(ShapeA, last.rewritten) \/ Found(ShapeB, last.rewritten))
        /\ ~(Found(ShapeA, last.content) \/ Found(ShapeB, last.content))
              => Pipeline(last.content) = last.content

(***************************************************************************)
(* C5.  After add_error_handler_import, and after the whole pipeline, at   *)
(* most one import declaration from utils/error-handler names logError     *)
(* (stated for the texts that name logError nowhere to begin with, where   *)
(* every such declaration is the work of the code).                        *)
(***************************************************************************)
C5_OneLogErrorImport ==
    (Called /\ last.ran /\ Count("logError", last.original) = 0) =>
        /\ NLinesWith(last.imported, {"import", "logError", "utils/error-handler"}) <= 1
        /\ NLinesWith(last.content, {"import", "logError", "utils/error-handler"}) <= 1

(***************************************************************************)
(* C6.  With no import of logError and no import from utils/error-handler, *)
(* add_error_handler_import puts the new declaration right after the end   *)
(* of the last import declaration, also one that spans several lines, and  *)
(* at the start of the file when there is none; the rest is unchanged.     *)
(***************************************************************************)
C6_InsertedAfterLastImport ==
    (/\ Called /\ last.ran
     /\ NLinesWith(last.rewritten, {"import", "logError"}) = 0
     /\ Count("utils/error-handler", last.rewritten) = 0) =>
        LET k == LastDeclEnd(last.rewritten)
        IN last.imported =
              SubSeq(last.rewritten, 1, k)
              \o (IF k = 0 THEN <<>> ELSE <<"\n">>)
              \o import_statement
              \o SubSeq(last.rewritten, k + 1, Len(last.rewritten))

(***************************************************************************)
(* C7.  With no logger.info, logger.warn or logger.debug left,             *)
(* remove_logger_import takes logger out of its import declaration from    *)
(* utils/logger wherever it stands in the name list, keeps the other       *)
(* names, and leaves no declaration with an empty name list.               *)
(***************************************************************************)
C7_LoggerRemovedFromImport ==
    (Called /\ last.ran /\ ~UsesOtherLevel(last.imported)) =>
        /\ NLinesWith(last.reconciled, {"import", "logger", "utils/logger"}) = 0
        /\ Count("a", last.reconciled) = Count("a", last.imported)
        /\ Count("b", last.reconciled) = Count("b", last.imported)
        /\ ~HasEmptyImport(last.reconciled)

C9_EachCallSiteOnItsOwn ==
    (Called /\ last.ran) => last.rewritten = ConvertEach(last.original)

(***************************************************************************)
(* C10.  When the pipeline takes logger out of its import declaration,     *)
(* the final text no longer uses logger: no logger.error call left         *)
(* unconverted, no other member of logger accessed.                        *)
(***************************************************************************)
C10_NoUseAfterImportRemoved ==
    (Called /\ last.ran /\ last.reconciled # last.imported) => ~UsesLogger(last.content)

====
